---- MODULE Spec2Model ----
(***************************************************************************)
(* Model of apps/readest-app/src-tauri/icons/generate_icons.py: the icon   *)
(* generator that opens icon.png and writes one resized copy per entry of  *)
(* three size tables.  The file system, the lazily decoded source image,   *)
(* standard output and the position of the script are the state.           *)
(***************************************************************************)
EXTENDS Integers, Sequences, FiniteSets, TLC

VARIABLES
    pc,          \* "Idle" | "Running" | "Done" | "Failed"
    idx,         \* position in the processing order of the entry being handled
    sp,          \* position in the loop body (index into BodySteps)
    mainIcon,    \* the image object bound to main_icon
    resized,     \* the image object bound to resized
    fs,          \* file system: path -> file
    iosDir,      \* does the directory ios/ exist
    unwritable,  \* paths whose open-for-writing is refused by the OS
    out,         \* standard output of the current process, a sequence of lines
    written,     \* paths whose save() completed in the current process
    order,       \* the order in which the entries are processed
    fs0,         \* the file system when the current process started
    run,         \* number of the current process (1 = first invocation)
    prev         \* how the previous process ended ("none" for the first)

vars == <<pc, idx, sp, mainIcon, resized, fs, iosDir, unwritable, out, written,
          order, fs0, run, prev>>

-----------------------------------------------------------------------------
(* Paths.  A relative path dir/stem.ext is kept as its three parts, so that *)
(* str.endswith('.ico') and the codec's choice by extension read the ext.   *)

P(d, s, e) == [dir |-> d, stem |-> s, ext |-> e]

E(d, s, e, n) == [filename |-> P(d, s, e), size |-> n]

SourcePath == P("", "icon", "png")

\* a file of the working tree that is no output of the script
OtherPath == P("ios", "Contents", "json")

\* the desktop table with the @2x entry at the 1x size
sizesRetinaAt1x ==
    << E("", "32x32", "png", 32),
       E("", "64x64", "png", 64),
       E("", "128x128", "png", 128),
       E("", "128x128@2x", "png", 128),
       E("", "icon", "ico", 32) >>

\* the three size tables of generate_icons(), in dict insertion order
sizes ==
    << E("", "32x32", "png", 32),
       E("", "64x64", "png", 64),
       E("", "128x128", "png", 128),
       E("", "128x128@2x", "png", 256),
       E("", "icon", "ico", 32) >>

ios_sizes ==
    << E("ios", "AppIcon-20x20@1x", "png", 20),
       E("ios", "AppIcon-20x20@2x", "png", 40),
       E("ios", "AppIcon-20x20@3x", "png", 60),
       E("ios", "AppIcon-29x29@1x", "png", 29),
       E("ios", "AppIcon-29x29@2x", "png", 58),
       E("ios", "AppIcon-29x29@3x", "png", 87),
       E("ios", "AppIcon-40x40@1x", "png", 40),
       E("ios", "AppIcon-40x40@2x", "png", 80),
       E("ios", "AppIcon-40x40@3x", "png", 120),
       E("ios", "AppIcon-60x60@2x", "png", 120),
       E("ios", "AppIcon-60x60@3x", "png", 180),
       E("ios", "AppIcon-76x76@1x", "png", 76),
       E("ios", "AppIcon-76x76@2x", "png", 152),
       E("ios", "AppIcon-83.5x83.5@2x", "png", 167),
       E("ios", "AppIcon-512@2x", "png", 1024) >>

store_sizes ==
    << E("", "Square30x30Logo", "png", 30),
       E("", "Square44x44Logo", "png", 44),
       E("", "Square71x71Logo", "png", 71),
       E("", "Square89x89Logo", "png", 89),
       E("", "Square107x107Logo", "png", 107),
       E("", "Square142x142Logo", "png", 142),
       E("", "Square150x150Logo", "png", 150),
       E("", "Square284x284Logo", "png", 284),
       E("", "Square310x310Logo", "png", 310),
       E("", "StoreLogo", "png", 50) >>

\* an entry together with the loop (table) whose body handles it
Tag(t, tbl) ==
    [i \in 1..Len(tbl) |->
        [table |-> t, filename |-> tbl[i].filename, size |-> tbl[i].size]]

\* the three for-loops one after the other, each in dict insertion order
ProcessingOrder ==
    Tag("sizes", sizes) \o Tag("ios_sizes", ios_sizes) \o Tag("store_sizes", store_sizes)

NumEntries == Len(ProcessingOrder)

OutputPaths == {ProcessingOrder[i].filename : i \in 1..NumEntries}

AllPaths == OutputPaths \cup {SourcePath, OtherPath}

-----------------------------------------------------------------------------
(* Files and images.                                                        *)

NoFile == [fmt |-> "NONE", size |-> <<0, 0>>, frames |-> {}, intact |-> FALSE]

\* bytes that no image codec identifies
GarbageFile == [fmt |-> "DATA", size |-> <<0, 0>>, frames |-> {}, intact |-> FALSE]

PngFile(wh, ok) == [fmt |-> "PNG", size |-> wh, frames |-> {}, intact |-> ok]

Exists(f) == f.fmt # "NONE"

NoImage == [size |-> <<0, 0>>, loaded |-> FALSE, intact |-> FALSE]

\* Image.open that falls back on a blank picture
ImageOpenOrBlank(f) ==
    IF f.fmt \in {"PNG", "ICO"}
    THEN [ok |-> TRUE, im |-> [size |-> f.size, loaded |-> FALSE, intact |-> f.intact]]
    ELSE [ok |-> TRUE, im |-> [size |-> <<1, 1>>, loaded |-> TRUE, intact |-> TRUE]]

\* a resize that keeps the aspect ratio of the picture
ResizeKeepAspect(im, wh) ==
    [size |-> <<wh[1], (wh[1] * im.size[2]) \div im.size[1]>>,
     loaded |-> TRUE, intact |-> TRUE]

\* Image.open: identifies the file from its header and returns a lazy image;
\* the pixel data is decoded by the first operation that needs it.
ImageOpen(f) ==
    IF f.fmt \in {"PNG", "ICO"}
    THEN [ok |-> TRUE, im |-> [size |-> f.size, loaded |-> FALSE, intact |-> f.intact]]
    ELSE [ok |-> FALSE, im |-> NoImage]

\* Image.load as called by resize: decoding fails on damaged pixel data
CanLoad(im) == im.loaded \/ im.intact

Load(im) == [im EXCEPT !.loaded = TRUE]

\* main_icon.resize((size, size), LANCZOS): a new image of exactly that size
Resize(im, wh) == [size |-> wh, loaded |-> TRUE, intact |-> TRUE]

\* the statement `resized = main_icon.resize((size, size), ...)`: what becomes
\* of the two names
ThumbnailStatement(im, n) ==
    LET w == IF im.size[1] < n THEN im.size[1] ELSE n
        h == IF im.size[2] < n THEN im.size[2] ELSE n
        t == [size |-> <<w, h>>, loaded |-> TRUE, intact |-> TRUE]
    IN  [resized |-> t, main_icon |-> t]

ResizeStatement(im, n) ==
    [resized |-> Resize(im, <<n, n>>), main_icon |-> Load(im)]

\* filename.endswith('.ico')
EndsWithIcoNever(filename) == FALSE

EndsWithIco(filename) == filename.ext = "ico"

\* the codec save() picks from the extension when no format is passed
FormatForExt(ext) ==
    CASE ext = "png" -> "PNG"
      [] ext = "ico" -> "ICO"
      [] OTHER -> "UNKNOWN"

Square(S) == {<<n, n>> : n \in S}

\* the sizes the ICO encoder embeds when none are passed
DefaultIcoSizes == Square({16, 24, 32, 48, 64, 128, 256})

\* the ICO encoder drops the sizes larger than the image or than 256
IcoFrames(im, wanted) ==
    {s \in wanted : s[1] <= im.size[1] /\ s[2] <= im.size[2]
                    /\ s[1] <= 256 /\ s[2] <= 256}

Largest(frames) ==
    IF frames = {} THEN <<0, 0>>
    ELSE CHOOSE f \in frames : \A g \in frames : g[1] <= f[1]

\* the file that im.save(filename, format=..., sizes=...) encodes;
\* format "" and sizes {} stand for the arguments not being passed
Encode(im, filename, format, wanted) ==
    LET fmt == IF format # "" THEN format ELSE FormatForExt(filename.ext)
    IN  IF fmt = "ICO"
        THEN LET fr == IcoFrames(im, IF wanted = {} THEN DefaultIcoSizes ELSE wanted)
             IN  [fmt |-> "ICO", size |-> Largest(fr), frames |-> fr, intact |-> TRUE]
        ELSE [fmt |-> fmt, size |-> im.size, frames |-> {}, intact |-> TRUE]

\* save() opens the destination for writing before it encodes
DirExists(d, ios) == d = "" \/ (d = "ios" /\ ios)

CanWrite(filename, ios, bad) ==
    /\ DirExists(filename.dir, ios)
    /\ filename \notin bad
    /\ FormatForExt(filename.ext) # "UNKNOWN"

\* the destination is created or overwritten
WriteFileToggle(files, filename, f) ==
    [files EXCEPT ![filename] = IF Exists(files[filename]) THEN NoFile ELSE f]

WriteFile(files, filename, f) == [files EXCEPT ![filename] = f]

\* f"Generated {filename} ({size}x{size})"
ProgressLine(filename, n) == [text |-> "Generated", filename |-> filename, size |-> n]

SuccessLine ==
    [text |-> "All icons generated successfully!", filename |-> SourcePath, size |-> 0]

\* the statements of a loop body, in program order
BodyStepsPrintFirst == <<"resize", "print", "save">>

BodySteps == <<"resize", "save", "print">>

\* no statement of the script catches an exception: one raised while the
\* script is at entry i ends the process there
SkipEntry(i) == [pc |-> "Running", idx |-> i + 1]

Unhandled(i) == [pc |-> "Failed", idx |-> i]

-----------------------------------------------------------------------------
(* The environment the script is started in.                                *)

\* dimensions of the source picture: square, non-square, smaller than any icon
SourceDims == {<<512, 512>>, <<512, 300>>, <<16, 16>>}

\* what may be found at icon.png: nothing, bytes that are no image, a picture,
\* or a picture whose header reads but whose pixel data is damaged
SourceFiles ==
    {NoFile, GarbageFile, PngFile(<<512, 512>>, FALSE)}
        \cup {PngFile(d, TRUE) : d \in SourceDims}

\* an output left behind by an earlier build, of other dimensions
StaleFile(p) ==
    IF p.ext = "ico"
    THEN [fmt |-> "ICO", size |-> <<16, 16>>, frames |-> {<<16, 16>>}, intact |-> TRUE]
    ELSE PngFile(<<1, 1>>, TRUE)

InitFs(src, ios, stale) ==
    [p \in AllPaths |->
        IF p = SourcePath THEN src
        ELSE IF p = OtherPath THEN (IF ios THEN GarbageFile ELSE NoFile)
        ELSE IF stale /\ DirExists(p.dir, ios) THEN StaleFile(p)
        ELSE NoFile]

Unwritables == {{}} \cup {{p} : p \in OutputPaths}

InitWith(ord, sources) ==
    /\ pc = "Idle"
    /\ idx = 0
    /\ sp = 1
    /\ mainIcon = NoImage
    /\ resized = NoImage
    /\ out = <<>>
    /\ written = <<>>
    /\ order = ord
    /\ run = 1
    /\ prev = "none"
    /\ iosDir \in BOOLEAN
    /\ unwritable \in Unwritables
    /\ \E src \in sources, stale \in BOOLEAN : fs = InitFs(src, iosDir, stale)
    /\ fs0 = fs

Init == InitWith(ProcessingOrder, SourceFiles)

-----------------------------------------------------------------------------
(* The script, statement by statement.                                      *)

Cur == order[idx]

Step == BodySteps[sp]

InLoop(t) == pc = "Running" /\ idx \in 1..NumEntries /\ order[idx].table = t

\* to the next statement of the body, or to the next entry of the loop
Advance ==
    IF sp < Len(BodySteps)
    THEN sp' = sp + 1 /\ idx' = idx
    ELSE sp' = 1 /\ idx' = idx + 1

\* an exception is raised by the statement the script is at
Raise ==
    LET t == Unhandled(idx)
    IN  pc' = t.pc /\ idx' = t.idx /\ sp' = (IF t.idx = idx THEN sp ELSE 1)

\* main_icon = Image.open('icon.png')
LoadSource ==
    /\ pc = "Idle"
    /\ LET r == ImageOpen(fs[SourcePath])
       IN  IF r.ok
           THEN pc' = "Running" /\ mainIcon' = r.im /\ idx' = 1 /\ sp' = 1
           ELSE Raise /\ UNCHANGED mainIcon
    /\ UNCHANGED <<resized, fs, iosDir, unwritable, out, written, order, fs0, run, prev>>

\* resized = main_icon.resize((size, size), Image.Resampling.LANCZOS)
DoResize ==
    /\ IF CanLoad(mainIcon)
       THEN LET r == ResizeStatement(mainIcon, Cur.size)
            IN  resized' = r.resized /\ mainIcon' = r.main_icon /\ Advance /\ pc' = pc
       ELSE Raise /\ UNCHANGED <<resized, mainIcon>>
    /\ UNCHANGED <<fs, iosDir, unwritable, out, written, order, fs0, run, prev>>

\* resized.save(filename, ...)
DoSave(format, wanted) ==
    /\ IF CanWrite(Cur.filename, iosDir, unwritable)
       THEN /\ fs' = WriteFile(fs, Cur.filename,
                               Encode(resized, Cur.filename, format, wanted))
            /\ written' = Append(written, Cur.filename)
            /\ Advance
            /\ pc' = pc
       ELSE Raise /\ UNCHANGED <<fs, written>>
    /\ UNCHANGED <<mainIcon, resized, iosDir, unwritable, out, order, fs0, run, prev>>

\* print(f"Generated {filename} ({size}x{size})")
DoPrint ==
    /\ out' = Append(out, ProgressLine(Cur.filename, Cur.size))
    /\ Advance
    /\ UNCHANGED <<pc, mainIcon, resized, fs, iosDir, unwritable, written, order,
                   fs0, run, prev>>

ResizeIco ==
    InLoop("sizes") /\ Step = "resize" /\ EndsWithIco(Cur.filename) /\ DoResize

SaveIco ==
    /\ InLoop("sizes") /\ Step = "save" /\ EndsWithIco(Cur.filename)
    /\ DoSave("ICO", {<<Cur.size, Cur.size>>})

ResizePng ==
    InLoop("sizes") /\ Step = "resize" /\ ~EndsWithIco(Cur.filename) /\ DoResize

SavePng ==
    InLoop("sizes") /\ Step = "save" /\ ~EndsWithIco(Cur.filename) /\ DoSave("", {})

PrintDesktop == InLoop("sizes") /\ Step = "print" /\ DoPrint

ResizeIos == InLoop("ios_sizes") /\ Step = "resize" /\ DoResize

SaveIos == InLoop("ios_sizes") /\ Step = "save" /\ DoSave("", {})

PrintIos == InLoop("ios_sizes") /\ Step = "print" /\ DoPrint

ResizeStore == InLoop("store_sizes") /\ Step = "resize" /\ DoResize

SaveStore == InLoop("store_sizes") /\ Step = "save" /\ DoSave("", {})

PrintStore == InLoop("store_sizes") /\ Step = "print" /\ DoPrint

\* generate_icons() has returned: print("All icons generated successfully!")
PrintSuccess ==
    /\ pc = "Running" /\ idx = NumEntries + 1
    /\ out' = Append(out, SuccessLine)
    /\ pc' = "Done"
    /\ UNCHANGED <<idx, sp, mainIcon, resized, fs, iosDir, unwritable, written,
                   order, fs0, run, prev>>

Next ==
    \/ LoadSource
    \/ ResizeIco
    \/ SaveIco
    \/ ResizePng
    \/ SavePng
    \/ PrintDesktop
    \/ ResizeIos
    \/ SaveIos
    \/ PrintIos
    \/ ResizeStore
    \/ SaveStore
    \/ PrintStore
    \/ PrintSuccess

Spec == Init /\ [][Next]_vars

\* the interpreter runs the script to its end: a statement that can run, runs
FairSpec == Spec /\ WF_vars(Next)

Terminal == {"Done", "Failed"}

-----------------------------------------------------------------------------
(* Properties of a single run.                                              *)

Tables == {sizes, ios_sizes, store_sizes}

HasSize(f, n) == Exists(f) /\ f.size = <<n, n>>

\* the paths of the first n entries of a processing order
PathsOf(ord, n) == [i \in 1..n |-> ord[i].filename]

Range(q) == {q[i] : i \in 1..Len(q)}

\* C1: after a successful run every (path, size) entry of the three tables
\* names an existing file of exactly size x size, whatever the dimensions of
\* the source picture.
C1_DeclaredSizes ==
    pc = "Done" =>
        \A tbl \in Tables : \A i \in 1..Len(tbl) :
            HasSize(fs[tbl[i].filename], tbl[i].size)

C1_Witness ==
    /\ pc = "Done"
    /\ fs[SourcePath].size = <<512, 300>>
    /\ HasSize(fs[P("ios", "AppIcon-512@2x", "png")], 1024)

\* C2: when icon.png is absent at the start, the run fails and no path of the
\* file system is created or overwritten.
C2_AbsentSource ==
    ~Exists(fs0[SourcePath]) =>
        /\ pc \in {"Idle", "Failed"}
        /\ fs = fs0
        /\ written = <<>>

C2_Witness ==
    /\ pc = "Failed"
    /\ ~Exists(fs0[SourcePath])
    /\ \E p \in OutputPaths : Exists(fs[p])

\* C3: the run is fail-fast without retry: a save that cannot write entry k
\* ends the run in Failed at k; exactly the entries before k, in processing
\* order, have been written with their declared sizes, and entry k and the
\* entries after it are left as they were.
C3_FailFast ==
    /\ [](pc = "Failed" /\ idx >= 1 =>
            /\ written = PathsOf(ProcessingOrder, idx - 1)
            /\ \A i \in 1..(idx - 1) :
                  HasSize(fs[ProcessingOrder[i].filename], ProcessingOrder[i].size)
            /\ \A i \in idx..NumEntries :
                  fs[ProcessingOrder[i].filename] = fs0[ProcessingOrder[i].filename])
    /\ [][(/\ pc = "Running" /\ idx \in 1..NumEntries /\ Step = "save"
           /\ ~CanWrite(ProcessingOrder[idx].filename, iosDir, unwritable))
          => pc' = "Failed" /\ idx' = idx /\ fs' = fs]_vars
    /\ [][pc = "Failed" => pc' = "Failed" /\ fs' = fs /\ written' = written]_vars

C3_Witness ==
    /\ pc = "Failed"
    /\ ~iosDir
    /\ idx = Len(sizes) + 1
    /\ Len(written) = Len(sizes)
    /\ ~Exists(fs[ProcessingOrder[idx].filename])

\* C6: from a 512x512 source a successful run gives 32x32.png of 32x32,
\* 128x128@2x.png of 256x256, icon.ico holding one 32x32 image, 15 files
\* under ios/ and 10 Windows Store files at their declared sizes: 30 files
\* written in all, 5 of them desktop entries.
C6_Scenario512 ==
    (pc = "Done" /\ fs0[SourcePath].size = <<512, 512>>) =>
        /\ fs[P("", "32x32", "png")] = PngFile(<<32, 32>>, TRUE)
        /\ fs[P("", "128x128@2x", "png")] = PngFile(<<256, 256>>, TRUE)
        /\ fs[P("", "icon", "ico")].fmt = "ICO"
        /\ fs[P("", "icon", "ico")].frames = {<<32, 32>>}
        /\ Cardinality({p \in Range(written) : p.dir = "ios"}) = 15
        /\ Cardinality(Range(written) \cap Range(PathsOf(store_sizes, Len(store_sizes)))) = 10
        /\ Cardinality(Range(written) \cap Range(PathsOf(sizes, Len(sizes)))) = 5
        /\ Len(written) = 30
        /\ Cardinality(Range(written)) = 30
        /\ \A tbl \in Tables : \A i \in 1..Len(tbl) :
              HasSize(fs[tbl[i].filename], tbl[i].size)

C6_Witness ==
    /\ pc = "Done"
    /\ fs0[SourcePath] = PngFile(<<512, 512>>, TRUE)
    /\ fs[P("", "StoreLogo", "png")] = PngFile(<<50, 50>>, TRUE)

\* C7: a written entry is an ICO file exactly when it is an entry of the
\* desktop table whose filename ends with .ico; that is one entry of all the
\* tables, icon.ico, holding the single size 32x32; every other entry is PNG.
C7_IcoBranch ==
    /\ \A i \in 1..Len(written) :
          LET e == ProcessingOrder[i]
              f == fs[e.filename]
          IN  /\ (f.fmt = "ICO") <=> (e.table = "sizes" /\ e.filename.ext = "ico")
              /\ f.fmt = "ICO" => (f.frames = {<<32, 32>>} /\ f.size = <<32, 32>>)
              /\ f.fmt # "ICO" => f.fmt = "PNG"
    /\ {i \in 1..NumEntries : ProcessingOrder[i].filename.ext = "ico"} = {Len(sizes)}
    /\ ProcessingOrder[Len(sizes)].filename = P("", "icon", "ico")

C7_Witness ==
    /\ pc = "Done"
    /\ fs[P("", "icon", "ico")].fmt = "ICO"
    /\ fs0[P("", "icon", "ico")].fmt = "NONE"
    /\ fs[P("", "64x64", "png")].fmt = "PNG"

ProgressOf(lines) == SelectSeq(lines, LAMBDA l : l.text = "Generated")

\* C8: one progress line per generated file, printed after the file is
\* written: the progress lines are a prefix of the processing order, as many
\* as the files written or one fewer; the closing message is printed only
\* after all 30 entries are written and reported, never in a failed run.
C8_ProgressLines ==
    LET prog == ProgressOf(out)
    IN  /\ Len(prog) <= NumEntries
        /\ \A i \in 1..Len(prog) :
              prog[i] = ProgressLine(ProcessingOrder[i].filename, ProcessingOrder[i].size)
        /\ Len(prog) \in {Len(written), Len(written) - 1}
        /\ SuccessLine \in Range(out) =>
              /\ Len(written) = 30
              /\ Len(prog) = 30
              /\ out = prog \o <<SuccessLine>>
              /\ pc = "Done"
        /\ pc = "Failed" => SuccessLine \notin Range(out)
        /\ pc = "Done" => SuccessLine \in Range(out)

C8_Witness ==
    /\ pc = "Running"
    /\ Len(written) = 7
    /\ Len(ProgressOf(out)) = 6

\* Image.open identifies icon.png / its pixel data can be decoded
Identified(f) == f.fmt \in {"PNG", "ICO"}

Decodable(f) == Identified(f) /\ f.intact

\* what C9 says of every run, apart from the failure of the source load: the
\* run is Running only with the source opened, it reaches Done or Failed and
\* stays there, Done only with every entry written
RunsToItsEnd ==
    /\ <>(pc \in Terminal)
    /\ [][(pc \in Terminal) => (pc' = pc)]_vars
    /\ [](pc = "Running" => mainIcon # NoImage /\ Identified(fs[SourcePath]))
    /\ [](pc = "Done" => Range(written) = OutputPaths /\ idx = NumEntries + 1)
    /\ [][pc = "Idle" => pc' \in {"Running", "Failed"}]_vars

\* C9 as stated: every run terminates as above, and a source that cannot be
\* loaded (missing or corrupt) takes the run from Idle to Failed without the
\* run ever entering the iteration over the tables.
C9_LoadFailureBeforeLoops ==
    /\ RunsToItsEnd
    /\ [](~Decodable(fs0[SourcePath]) => pc \in {"Idle", "Failed"} /\ idx = 0)

\* C9 amended: every run terminates as above; a failing Image.open (icon.png
\* missing or no image) takes the run from Idle to Failed with no entry
\* handled; a source that opens but whose pixel data cannot be decoded fails
\* in Running at the resize of the first entry, before anything is written.
C9_Terminates ==
    /\ RunsToItsEnd
    /\ [](~Identified(fs0[SourcePath]) =>
            pc \in {"Idle", "Failed"} /\ idx = 0 /\ resized = NoImage)
    /\ []((Identified(fs0[SourcePath]) /\ ~Decodable(fs0[SourcePath])) =>
            /\ pc \in {"Idle", "Running", "Failed"}
            /\ idx <= 1 /\ sp = 1
            /\ resized = NoImage /\ written = <<>> /\ out = <<>> /\ fs = fs0)

C9_Witness ==
    /\ pc = "Failed"
    /\ idx = 1
    /\ fs[SourcePath] = PngFile(<<512, 512>>, FALSE)
    /\ mainIcon # NoImage

\* C10: the source is read-only during the run: no resize changes the image
\* bound to main_icon, no output path is icon.png, the output paths of the
\* three tables are pairwise distinct, so icon.png is never overwritten and
\* no path is written twice.
C10_SourceReadOnly ==
    /\ [][(pc = "Running" /\ pc' = "Running") =>
            (mainIcon'.size = mainIcon.size /\ mainIcon'.intact = mainIcon.intact)]_vars
    /\ [](SourcePath \notin OutputPaths)
    /\ [](Cardinality(OutputPaths) = Len(sizes) + Len(ios_sizes) + Len(store_sizes))
    /\ [](fs[SourcePath] = fs0[SourcePath])
    /\ [](SourcePath \notin Range(written))
    /\ [](\A i, j \in 1..Len(written) : i # j => written[i] # written[j])

C10_Witness ==
    /\ pc = "Done"
    /\ mainIcon = [size |-> <<16, 16>>, loaded |-> TRUE, intact |-> TRUE]
    /\ resized.size = <<50, 50>>

-----------------------------------------------------------------------------
(* The script run again on what the previous run left.                      *)

\* how many times the script is invoked
MaxRuns == 2

\* a new process: fresh names and standard output, the same file system
Rerun ==
    /\ pc \in Terminal
    /\ run < MaxRuns
    /\ pc' = "Idle"
    /\ idx' = 0
    /\ sp' = 1
    /\ mainIcon' = NoImage
    /\ resized' = NoImage
    /\ out' = <<>>
    /\ written' = <<>>
    /\ fs0' = fs
    /\ prev' = pc
    /\ run' = run + 1
    /\ UNCHANGED <<fs, iosDir, unwritable, order>>

NextTwice ==
    \/ Next
    \/ Rerun

SpecTwice == Init /\ [][NextTwice]_vars

\* C4: a second successful run after a successful one leaves the same set of
\* paths with files of the same dimensions as the first run left: each output
\* is overwritten by a file of identical dimensions and no path is added.
C4_Idempotent ==
    (run >= 2 /\ prev = "Done" /\ pc = "Done") =>
        /\ \A p \in AllPaths :
              /\ Exists(fs[p]) = Exists(fs0[p])
              /\ fs[p].size = fs0[p].size
        /\ Range(written) = OutputPaths

C4_Witness ==
    /\ run = 2
    /\ prev = "Done"
    /\ pc = "Done"
    /\ Len(written) = NumEntries
    /\ fs0[P("", "Square310x310Logo", "png")] = PngFile(<<310, 310>>, TRUE)

-----------------------------------------------------------------------------
(* The entries processed in another order.                                  *)

\* how far apart two exchanged entries may be
MaxSwapSpan == 2

SwapAt(ord, i, j) ==
    [k \in 1..Len(ord) |-> IF k = i THEN ord[j] ELSE IF k = j THEN ord[i] ELSE ord[k]]

Reversed(ord) == [k \in 1..Len(ord) |-> ord[Len(ord) + 1 - k]]

\* exchanges of two entries, the loops in another order, the whole order reversed
Reorderings ==
    UNION {{SwapAt(ProcessingOrder, i, j) :
               j \in {k \in i..(i + MaxSwapSpan) : k <= NumEntries}} :
           i \in 1..NumEntries}
    \cup {Tag("store_sizes", store_sizes) \o Tag("sizes", sizes) \o Tag("ios_sizes", ios_sizes),
          Reversed(ProcessingOrder)}

\* the sources the reordered script is run on: a non-square picture, a
\* damaged one, none
PermSources == {PngFile(<<512, 300>>, TRUE), PngFile(<<512, 512>>, FALSE), NoFile}

InitPerm == \E ord \in Reorderings : InitWith(ord, PermSources)

SpecPerm == InitPerm /\ [][Next]_vars

\* generate_icons() as a function of the order and of the environment: the
\* way the run ends and the file system it leaves
RECURSIVE Loops(_, _, _, _, _, _)
Loops(ord, i, im, files, ios, bad) ==
    IF i > Len(ord) THEN [pc |-> "Done", fs |-> files]
    ELSE IF ~CanLoad(im) THEN [pc |-> "Failed", fs |-> files]
    ELSE LET e == ord[i]
             r == ResizeStatement(im, e.size)
             ico == e.table = "sizes" /\ EndsWithIco(e.filename)
             f == IF ico
                  THEN Encode(r.resized, e.filename, "ICO", {<<e.size, e.size>>})
                  ELSE Encode(r.resized, e.filename, "", {})
         IN  IF ~CanWrite(e.filename, ios, bad)
             THEN [pc |-> "Failed", fs |-> files]
             ELSE Loops(ord, i + 1, r.main_icon, WriteFile(files, e.filename, f), ios, bad)

GenerateIcons(ord, files, ios, bad) ==
    LET r == ImageOpen(files[SourcePath])
    IN  IF ~r.ok THEN [pc |-> "Failed", fs |-> files]
        ELSE Loops(ord, 1, r.im, files, ios, bad)

SameFiles(f, g) ==
    \A p \in AllPaths : Exists(f[p]) = Exists(g[p]) /\ f[p].size = g[p].size

\* C5 as stated: in whatever order the entries are processed, the run ends
\* as it does in the original order and leaves the same files with the same
\* dimensions.
C5_OrderIrrelevant ==
    pc \in Terminal =>
        LET r == GenerateIcons(ProcessingOrder, fs0, iosDir, unwritable)
        IN  pc = r.pc /\ SameFiles(fs, r.fs)

\* C5 amended: in whatever order the entries are processed the run ends Done
\* or Failed as in the original order; a run that ends Done leaves the same
\* files with the same dimensions; a run that fails at an entry has written
\* exactly the entries before it in the order used.
C5_OrderIrrelevantWhenDone ==
    pc \in Terminal =>
        LET r == GenerateIcons(ProcessingOrder, fs0, iosDir, unwritable)
        IN  /\ pc = r.pc
            /\ pc = "Done" => SameFiles(fs, r.fs)
            /\ (pc = "Failed" /\ idx >= 1) =>
                  /\ written = PathsOf(order, idx - 1)
                  /\ \A i \in 1..(idx - 1) : HasSize(fs[order[i].filename], order[i].size)
                  /\ \A i \in idx..NumEntries : fs[order[i].filename] = fs0[order[i].filename]

C5_Witness ==
    /\ pc = "Done"
    /\ order = Reversed(ProcessingOrder)
    /\ fs[P("", "icon", "ico")].fmt = "ICO"

\* the run of the script agrees with generate_icons() as a function
RunMatchesFunction ==
    pc \in Terminal =>
        LET r == GenerateIcons(order, fs0, iosDir, unwritable)
        IN  pc = r.pc /\ fs = r.fs

====
